---- MODULE Spec2Model ----
(***************************************************************************)
(* Model of the per-minute schedule reminder job of the task/schedule      *)
(* manager server (cron.schedule('* * * * *') with the WhatsApp sender),   *)
(* and of the handlers that read the same data.                            *)
(*                                                                         *)
(* Strings that the code takes apart (time strings, cell texts) are        *)
(* sequences of one-character strings, so that trim, the period regex,     *)
(* split(':') and parseInt are computed as the code computes them.         *)
(***************************************************************************)
EXTENDS Integers, Sequences, FiniteSets, TLC

(***************************************************************************)
(* String helpers (JavaScript String.prototype.trim, parseInt, split)      *)
(***************************************************************************)
DigitChars == {"0", "1", "2", "3", "4", "5", "6", "7", "8", "9"}

DigitVal(c) ==
    CASE c = "0" -> 0 [] c = "1" -> 1 [] c = "2" -> 2 [] c = "3" -> 3
      [] c = "4" -> 4 [] c = "5" -> 5 [] c = "6" -> 6 [] c = "7" -> 7
      [] c = "8" -> 8 [] c = "9" -> 9

IsSpace(c) == c = " "

RECURSIVE TrimStart(_)
TrimStart(s) ==
    IF s = <<>> THEN <<>>
    ELSE IF IsSpace(Head(s)) THEN TrimStart(Tail(s)) ELSE s

RECURSIVE TrimEnd(_)
TrimEnd(s) ==
    IF s = <<>> THEN <<>>
    ELSE IF IsSpace(s[Len(s)]) THEN TrimEnd(SubSeq(s, 1, Len(s) - 1)) ELSE s

\* String.prototype.trim
Trim(s) == TrimEnd(TrimStart(s))

\* a JavaScript number that may be NaN
NaN == [nan |-> TRUE, v |-> 0]

Num(n) == [nan |-> FALSE, v |-> n]

\* value of the longest prefix of digits of s, acc being the value so far
RECURSIVE DigitPrefix(_, _, _)
DigitPrefix(s, acc, seen) ==
    IF s # <<>> /\ Head(s) \in DigitChars
    THEN DigitPrefix(Tail(s), acc * 10 + DigitVal(Head(s)), TRUE)
    ELSE IF seen THEN Num(acc) ELSE NaN

\* parseInt(s, 10): leading white space and one sign are skipped, then the
\* longest run of digits is read; NaN when there is no digit
ParseInt(s) ==
    LET t == TrimStart(s) IN
    IF t = <<>> THEN NaN
    ELSE IF Head(t) = "-"
         THEN LET r == DigitPrefix(Tail(t), 0, FALSE) IN
              IF r.nan THEN NaN ELSE Num(0 - r.v)
         ELSE IF Head(t) = "+" THEN DigitPrefix(Tail(t), 0, FALSE)
         ELSE DigitPrefix(t, 0, FALSE)

\* index of the first ':' of s, or 0
RECURSIVE ColonAt(_, _)
ColonAt(s, i) ==
    IF i > Len(s) THEN 0
    ELSE IF s[i] = ":" THEN i ELSE ColonAt(s, i + 1)

\* const [hoursStr, minutesStr] = timePart.split(':');  has2 is FALSE when
\* minutesStr is undefined
SplitColon(s) ==
    LET c == ColonAt(s, 1) IN
    IF c = 0 THEN [hoursStr |-> s, has2 |-> FALSE, minutesStr |-> <<>>]
    ELSE LET rest == SubSeq(s, c + 1, Len(s))
             d    == ColonAt(rest, 1)
         IN [hoursStr   |-> SubSeq(s, 1, c - 1),
             has2       |-> TRUE,
             minutesStr |-> IF d = 0 THEN rest ELSE SubSeq(rest, 1, d - 1)]

(***************************************************************************)
(* timePart.match(/([0-9:]+)\s*([AP]M?)/i)                                 *)
(***************************************************************************)
IsTimeChar(c) == c \in DigitChars \/ c = ":"

IsAP(c) == c \in {"A", "P", "a", "p"}

IsM(c) == c \in {"M", "m"}

\* last index of the run of [0-9:] that starts at i
RECURSIVE RunEnd(_, _)
RunEnd(s, i) ==
    IF i < Len(s) /\ IsTimeChar(s[i + 1]) THEN RunEnd(s, i + 1) ELSE i

\* first index >= i that is not white space (Len(s)+1 when there is none)
RECURSIVE SkipSpace(_, _)
SkipSpace(s, i) ==
    IF i <= Len(s) /\ IsSpace(s[i]) THEN SkipSpace(s, i + 1) ELSE i

\* the leftmost match starting at or after i: [found, g1, g2]
RECURSIVE PeriodMatchFrom(_, _)
PeriodMatchFrom(s, i) ==
    IF i > Len(s) THEN [found |-> FALSE, g1 |-> <<>>, g2 |-> <<>>]
    ELSE IF ~IsTimeChar(s[i]) THEN PeriodMatchFrom(s, i + 1)
    ELSE LET e == RunEnd(s, i)
             k == SkipSpace(s, e + 1)
         IN IF k <= Len(s) /\ IsAP(s[k])
            THEN [found |-> TRUE,
                  g1    |-> SubSeq(s, i, e),
                  g2    |-> IF k < Len(s) /\ IsM(s[k + 1])
                            THEN <<s[k], s[k + 1]>> ELSE <<s[k]>>]
            ELSE PeriodMatchFrom(s, e + 1)

PeriodMatch(s) == PeriodMatchFrom(s, 1)

\* every suffix is read as AM
PeriodOf_AlwaysAM(g2) == "AM"

\* periodMatch[2].toUpperCase(), then 'P' -> 'PM' and 'A' -> 'AM'
PeriodOf(g2) == IF g2[1] \in {"P", "p"} THEN "PM" ELSE "AM"

(***************************************************************************)
(* Header time parsing of the reminder job (time slot build)               *)
(***************************************************************************)
\* 12 AM stays 12
To24Hour_NoMidnight(period, hours) ==
    IF hours.nan THEN hours
    ELSE IF period = "PM" /\ hours.v < 12 THEN Num(hours.v + 12)
    ELSE hours

\* an hour below 12 without a suffix is taken as an afternoon hour
To24Hour_AfternoonDefault(period, hours) ==
    IF hours.nan THEN hours
    ELSE IF period # "AM" /\ hours.v < 12 THEN Num(hours.v + 12)
    ELSE IF period = "AM" /\ hours.v = 12 THEN Num(0)
    ELSE hours

\* hours after "Convert 12-hour to 24-hour format if needed"
To24Hour(period, hours) ==
    IF hours.nan THEN hours
    ELSE IF period = "PM" /\ hours.v < 12 THEN Num(hours.v + 12)
    ELSE IF period = "AM" /\ hours.v = 12 THEN Num(0)
    ELSE hours

\* only isNaN is tested
ValidTime_NaNOnly(hours, minutes) == ~(hours.nan \/ minutes.nan)

\* "Validate hours and minutes"
ValidTime(hours, minutes) ==
    ~(hours.nan \/ minutes.nan \/ hours.v < 0 \/ hours.v > 23
        \/ minutes.v < 0 \/ minutes.v > 59)

\* the parse of one header string: [ok, hours, minutes]
ParseTimeString(timeString) ==
    LET trimmed == Trim(timeString)
        pm      == PeriodMatch(trimmed)
        timePart == IF pm.found THEN Trim(pm.g1) ELSE trimmed
        period  == IF pm.found THEN PeriodOf(pm.g2) ELSE ""
        parts   == SplitColon(timePart)
        hours0  == ParseInt(parts.hoursStr)
        minutes == ParseInt(IF parts.has2 /\ parts.minutesStr # <<>>
                            THEN parts.minutesStr ELSE <<"0">>)
        hours   == To24Hour(period, hours0)
    IN IF ValidTime(hours, minutes)
       THEN [ok |-> TRUE, hours |-> hours.v, minutes |-> minutes.v]
       ELSE [ok |-> FALSE, hours |-> 0, minutes |-> 0]

(***************************************************************************)
(* Dates: an instant is a number of minutes since a Sunday 00:00 local     *)
(* time (the job only reads the weekday, the hour and the minute).         *)
(***************************************************************************)
MinutesPerHour == 60

HoursPerDay == 24

DaysPerWeek == 7

MinutesPerDay == MinutesPerHour * HoursPerDay

MinutesPerWeek == MinutesPerDay * DaysPerWeek

\* Date.prototype.getDay (0 = Sunday), getHours, getMinutes
GetDay(t) == (t \div MinutesPerDay) % DaysPerWeek

GetHours(t) == (t % MinutesPerDay) \div MinutesPerHour

GetMinutes(t) == t % MinutesPerHour

\* the instant of (day, hour, minute) in week w
At(w, day, hour, minute) ==
    w * MinutesPerWeek + day * MinutesPerDay + hour * MinutesPerHour + minute

\* new Date(now.getTime() + 60000)
nextMinute(now) == now + 1

UpperChars ==
    <<"A", "B", "C", "D", "E", "F", "G", "H", "I", "J", "K", "L", "M",
      "N", "O", "P", "Q", "R", "S", "T", "U", "V", "W", "X", "Y", "Z">>

LowerChars ==
    <<"a", "b", "c", "d", "e", "f", "g", "h", "i", "j", "k", "l", "m",
      "n", "o", "p", "q", "r", "s", "t", "u", "v", "w", "x", "y", "z">>

LowerChar(c) ==
    IF \E i \in 1..Len(UpperChars) : UpperChars[i] = c
    THEN LowerChars[CHOOSE i \in 1..Len(UpperChars) : UpperChars[i] = c]
    ELSE c

\* String.prototype.toLowerCase
ToLowerCase(str) == [i \in 1..Len(str) |-> LowerChar(str[i])]

Sunday == <<"S", "u", "n", "d", "a", "y">>

Monday == <<"M", "o", "n", "d", "a", "y">>

Tuesday == <<"T", "u", "e", "s", "d", "a", "y">>

Wednesday == <<"W", "e", "d", "n", "e", "s", "d", "a", "y">>

Thursday == <<"T", "h", "u", "r", "s", "d", "a", "y">>

Friday == <<"F", "r", "i", "d", "a", "y">>

Saturday == <<"S", "a", "t", "u", "r", "d", "a", "y">>

daysOfWeek ==
    <<Sunday, Monday, Tuesday, Wednesday, Thursday, Friday, Saturday>>

\* the row of the grid that holds a day (0 = Monday, ..., 6 = Sunday);
\* found is FALSE where the object has no such key
dayToRowIndex(key) ==
    CASE key = <<"m", "o", "n", "d", "a", "y">> -> [found |-> TRUE, index |-> 0]
      [] key = <<"t", "u", "e", "s", "d", "a", "y">> -> [found |-> TRUE, index |-> 1]
      [] key = <<"w", "e", "d", "n", "e", "s", "d", "a", "y">> -> [found |-> TRUE, index |-> 2]
      [] key = <<"t", "h", "u", "r", "s", "d", "a", "y">> -> [found |-> TRUE, index |-> 3]
      [] key = <<"f", "r", "i", "d", "a", "y">> -> [found |-> TRUE, index |-> 4]
      [] key = <<"s", "a", "t", "u", "r", "d", "a", "y">> -> [found |-> TRUE, index |-> 5]
      [] key = <<"s", "u", "n", "d", "a", "y">> -> [found |-> TRUE, index |-> 6]
      [] OTHER -> [found |-> FALSE, index |-> 0]

\* the day of now instead of the day of now + 60 s
targetDay_OfNow(now) == daysOfWeek[GetDay(now) + 1]

\* const targetDay = daysOfWeek[nextMinute.getDay()] of the job's try block
targetDay(now) == daysOfWeek[GetDay(nextMinute(now)) + 1]

targetHour(now) == GetHours(nextMinute(now))

targetMinute(now) == GetMinutes(nextMinute(now))

(***************************************************************************)
(* Stored data.  A schedule value is                                       *)
(*   [kind |-> "none"]    no schedule                                      *)
(*   [kind |-> "object"]  {headers, rows}; hasHeaders / hasRows tell       *)
(*                        whether the key is there                         *)
(*   [kind |-> "array"]   a bare array; its items are in rows              *)
(* A row is an array of cell texts (arr = TRUE, cells) or an object        *)
(* (arr = FALSE, obj: a record whose domain is the object's keys).         *)
(***************************************************************************)
NoObj == [none |-> <<>>]

ArrRow(cells) == [arr |-> TRUE, cells |-> cells, obj |-> NoObj]

ObjRow(obj) == [arr |-> FALSE, cells |-> <<>>, obj |-> obj]

\* a row that is null
NullRow == [arr |-> FALSE, cells |-> <<>>, obj |-> NoObj]

IsNull(row) == row = NullRow

NoSchedule ==
    [kind |-> "none", hasHeaders |-> FALSE, headers |-> <<>>,
     hasRows |-> FALSE, rows |-> <<>>]

Grid(headers, rows) ==
    [kind |-> "object", hasHeaders |-> TRUE, headers |-> headers,
     hasRows |-> TRUE, rows |-> rows]

RowsOnly(rows) ==
    [kind |-> "object", hasHeaders |-> FALSE, headers |-> <<>>,
     hasRows |-> TRUE, rows |-> rows]

BareArray(items) ==
    [kind |-> "array", hasHeaders |-> FALSE, headers |-> <<>>,
     hasRows |-> FALSE, rows |-> items]

\* 'key' in row
HasKey(row, key) == ~row.arr /\ key \in DOMAIN row.obj

\* row.key as a truthy value: the key is there and its text is not ''
Truthy(row, key) == HasKey(row, key) /\ row.obj[key] # <<>>

(***************************************************************************)
(* The reminder job: filters                                               *)
(***************************************************************************)
\* verifiedUsers = allUsers.filter(...): a phone and isVerified === true
IsVerifiedUser(user) == Trim(user.phone) # <<>> /\ user.isVerified = TRUE

\* the flag is never looked at
whatsappEnabled_Always(user) == TRUE

\* an absent flag counts as disabled
whatsappEnabled_OptIn(user) == user.whatsapp = "true"

\* const whatsappEnabled = user.notificationSettings?.whatsapp !== false
whatsappEnabled(user) == user.whatsapp # "false"

\* isNewFormat of the filter: rows[0] is an object with a 'day' key
FilterIsNewFormat(schedule) ==
    /\ schedule.kind = "object" /\ schedule.hasRows
    /\ Len(schedule.rows) > 0
    /\ HasKey(schedule.rows[1], "day")

\* let hasValidSchedule of the filter over verifiedUsers
hasValidSchedule(user) ==
    LET schedule == user.schedule IN
    IF schedule.kind = "none" THEN FALSE
    ELSE IF FilterIsNewFormat(schedule)
    THEN \E i \in 1..Len(schedule.rows) :
            /\ Truthy(schedule.rows[i], "day")
            /\ Truthy(schedule.rows[i], "time")
            /\ Truthy(schedule.rows[i], "task")
    ELSE /\ schedule.kind = "object" /\ schedule.hasRows
         /\ Len(schedule.rows) > 0

\* the users the per-user loop runs over
IsEligible(user) ==
    IsVerifiedUser(user) /\ whatsappEnabled(user) /\ hasValidSchedule(user)

(***************************************************************************)
(* The reminder job: the statements between User.find and the per-user     *)
(* loop that throw.  They stand in no per-user try, so the outer catch     *)
(* ends the tick.                                                          *)
(***************************************************************************)
\* user.schedule.rows.length is read without the optional chaining
LogThrows_NoOptionalChaining(user) ==
    user.schedule.kind # "none" /\ ~user.schedule.hasRows

\* allUsers.forEach(...): row.day is read of the first two rows
LogThrows(user) ==
    /\ user.schedule.kind = "object" /\ user.schedule.hasRows
    /\ \E i \in 1..Len(user.schedule.rows) :
          i <= 2 /\ IsNull(user.schedule.rows[i])

\* verifiedUsers.forEach(...): 'day' in rows[0], and row.day of every row
\* when rows[0] is an object with a 'day' key
FilterThrows(user) ==
    LET schedule == user.schedule IN
    /\ schedule.kind = "object" /\ schedule.hasRows
    /\ Len(schedule.rows) > 0
    /\ \/ IsNull(schedule.rows[1])
       \/ /\ HasKey(schedule.rows[1], "day")
          /\ \E i \in 1..Len(schedule.rows) : IsNull(schedule.rows[i])

\* the two users.forEach(...) passes: row[0] or row.day is read of every row
PassThrows(user) ==
    /\ user.schedule.kind = "object" /\ user.schedule.hasRows
    /\ \E i \in 1..Len(user.schedule.rows) : IsNull(user.schedule.rows[i])

\* some statement before the per-user loop throws
TickThrows(allUsers) ==
    \E id \in DOMAIN allUsers :
       \/ LogThrows(allUsers[id])
       \/ IsVerifiedUser(allUsers[id]) /\ FilterThrows(allUsers[id])
       \/ IsEligible(allUsers[id]) /\ PassThrows(allUsers[id])

(***************************************************************************)
(* The reminder job: the per-user loop body up to the dispatches           *)
(***************************************************************************)
\* let schedule = currentUser.weeklySchedule || currentUser.schedule, then
\* the shape conversion (a bare array becomes {rows, headers: []})
LoopSchedule(user) ==
    LET schedule == IF user.weeklySchedule.kind # "none"
                    THEN user.weeklySchedule ELSE user.schedule
    IN IF schedule.kind = "array"
       THEN Grid(<<>>, schedule.rows)
       ELSE schedule

\* currentDayRow = schedule.rows[targetRowIndex] || schedule.rows[0]
currentDayRow(schedule, now) ==
    LET targetRowIndex == GetDay(nextMinute(now)) IN
    IF targetRowIndex + 1 <= Len(schedule.rows)
    THEN schedule.rows[targetRowIndex + 1] ELSE schedule.rows[1]

\* isNewFormat of the loop
LoopIsNewFormat(row) ==
    \/ HasKey(row, "day")
    \/ HasKey(row, "Day")
    \/ (Truthy(row, "Time") /\ Truthy(row, "Task"))

\* the header is paired with the cell after it
CellText_NextCell(daySchedule, col) ==
    IF col + 2 <= Len(daySchedule) THEN Trim(daySchedule[col + 2]) ELSE <<>>

\* the text of the cell is taken as it is stored
CellText_Untrimmed(daySchedule, col) ==
    IF col + 1 <= Len(daySchedule) THEN daySchedule[col + 1] ELSE <<>>

\* (daySchedule[col] || '').toString().trim(), col counted from 0
CellText(daySchedule, col) ==
    IF col + 1 <= Len(daySchedule) THEN Trim(daySchedule[col + 1]) ELSE <<>>

\* the time slots in header order: one per header that parses
RECURSIVE BuildTimeSlots(_, _, _)
BuildTimeSlots(headers, daySchedule, col) ==
    IF col >= Len(headers) THEN <<>>
    ELSE LET timeString == headers[col + 1]
             parsed     == ParseTimeString(timeString)
             rest       == BuildTimeSlots(headers, daySchedule, col + 1)
         IN IF timeString = <<>> \/ ~parsed.ok THEN rest
            ELSE <<[col      |-> col,
                    hours    |-> parsed.hours,
                    minutes  |-> parsed.minutes,
                    taskText |-> CellText(daySchedule, col)]>> \o rest

\* the comparator of timeSlots.sort: a goes before b
SlotBefore(a, b) ==
    IF a.hours # b.hours THEN a.hours < b.hours ELSE a.minutes < b.minutes

\* slot put into a sorted sequence, after the slots it does not go before
RECURSIVE InsertSlot(_, _)
InsertSlot(sorted, slot) ==
    IF sorted = <<>> THEN <<slot>>
    ELSE IF SlotBefore(slot, Head(sorted)) THEN <<slot>> \o sorted
    ELSE <<Head(sorted)>> \o InsertSlot(Tail(sorted), slot)

\* timeSlots.sort(...) (Array.prototype.sort is stable)
RECURSIVE SortSlots(_, _)
SortSlots(slots, sorted) ==
    IF slots = <<>> THEN sorted
    ELSE SortSlots(Tail(slots), InsertSlot(sorted, Head(slots)))

\* the minute is not compared
SlotMatches_HourOnly(slot, now) == slot.hours = targetHour(now)

\* the condition of the match loop for one slot
SlotMatches(slot, now) ==
    slot.hours = targetHour(now) /\ slot.minutes = targetMinute(now)

\* the slots of the match loop for which sendWhatsAppReminder is called
RECURSIVE DueSlots(_, _)
DueSlots(slots, now) ==
    IF slots = <<>> THEN <<>>
    ELSE IF SlotMatches(Head(slots), now) /\ Head(slots).taskText # <<>>
         THEN <<Head(slots)>> \o DueSlots(Tail(slots), now)
         ELSE DueSlots(Tail(slots), now)

\* the calls of sendWhatsAppReminder made for one user of the loop, in
\* order; a user whose processing throws is caught and makes none
UserCalls(user, now) ==
    LET schedule == LoopSchedule(user) IN
    IF schedule.kind = "none" THEN <<>>
    ELSE IF ~schedule.hasRows
    THEN <<>>   \* rows = [schedule]: JSON.stringify throws on the cycle
    ELSE IF Len(schedule.rows) = 0 THEN <<>>
    ELSE IF IsNull(currentDayRow(schedule, now))
    THEN <<>>   \* TypeError: 'day' in null
    ELSE IF LoopIsNewFormat(currentDayRow(schedule, now))
    THEN <<>>   \* ReferenceError: row is not defined
    ELSE LET targetDayLower == ToLowerCase(targetDay(now))
             rowIndex == dayToRowIndex(targetDayLower).index
         IN
         IF ~dayToRowIndex(targetDayLower).found
               \/ rowIndex >= Len(schedule.rows) THEN <<>>
         ELSE IF ~schedule.rows[rowIndex + 1].arr THEN <<>>
         ELSE IF ~schedule.hasHeaders
         THEN <<>>   \* TypeError: schedule.headers is undefined
         ELSE DueSlots(
                SortSlots(BuildTimeSlots(schedule.headers,
                              schedule.rows[rowIndex + 1].cells, 0), <<>>),
                now)

(***************************************************************************)
(* Inputs: texts, schedules, users, tasks, starting instants               *)
(***************************************************************************)
\* number of ticks of the job in one behaviour
MaxTicks == 2

T900AM == <<"9", ":", "0", "0", " ", "A", "M">>

T0900 == <<"0", "9", ":", "0", "0">>

T1000AM == <<"1", "0", ":", "0", "0", " ", "A", "M">>

T1200AM == <<"1", "2", ":", "0", "0", " ", "A", "M">>

TDayHeader == <<"D", "a", "y">>

Standup == <<"S", "t", "a", "n", "d", "u", "p">>

Review == <<"R", "e", "v", "i", "e", "w">>

Gym == <<"G", "y", "m">>

Call == <<" ", "C", "a", "l", "l">>

CallText == <<"C", "a", "l", "l">>

Blank == <<" ">>

Phone1 == <<"9", "1", "9", "8">>

\* {headers: ["9:00 AM", "10:00 AM"], rows: [["Monday", "Standup", "Review"]]}
ExampleGrid == Grid(<<T900AM, T1000AM>>, <<ArrRow(<<Monday, Standup, Review>>)>>)

\* the same triples with a header for the day column, so that headers[col]
\* is the time of the cell at the same index
AlignedGrid ==
    Grid(<<TDayHeader, T900AM, T1000AM>>,
         <<ArrRow(<<Monday, Standup, Review>>)>>)

\* two headers that parse to 09:00, both with text on Monday (row 0) and
\* one of them on Tuesday (row 1)
DupGrid ==
    Grid(<<TDayHeader, T900AM, T0900, T1000AM>>,
         <<ArrRow(<<Monday, Standup, Review, Gym>>),
           ArrRow(<<Tuesday, Call, Blank, <<>> >>)>>)

\* seven rows (Monday .. Sunday) with a midnight column
WeekGrid ==
    Grid(<<TDayHeader, T1200AM, T900AM>>,
         <<ArrRow(<<Monday, Standup, Gym>>),
           ArrRow(<<Tuesday, <<>>, Call>>),
           ArrRow(<<>>), ArrRow(<<>>), ArrRow(<<>>), ArrRow(<<>>),
           ArrRow(<<Sunday, Review, <<>> >>)>>)

\* the triples of ExampleGrid as {day, time, task} records
ExampleRecords ==
    <<ObjRow([day |-> Monday, time |-> T900AM, task |-> Standup]),
      ObjRow([day |-> Monday, time |-> T1000AM, task |-> Review])>>

\* encoding (b): {rows: [{day, time, task}, ...]}
RecordSchedule == RowsOnly(ExampleRecords)

\* encoding (c): a bare array of records
ArraySchedule == BareArray(ExampleRecords)

EmptyGrid == Grid(<<>>, <<>>)

T2500 == <<"2", "5", ":", "0", "0">>

Funday == <<"F", "u", "n", "d", "a", "y">>

\* a grid that mixes filled cells under parseable headers with a cell under
\* a header that is no time, a blank cell, and a row whose first cell is no
\* day name
MixedGrid ==
    Grid(<<TDayHeader, T900AM, T2500, T1000AM>>,
         <<ArrRow(<<Monday, Standup, Review, Blank>>),
           ArrRow(<<Funday, Gym, <<>>, <<>> >>)>>)

\* {day, time, task} records: a valid one, then one with an invalid day name,
\* one without the day key, one with an unparsable time, one with empty text
MixedRecords ==
    RowsOnly(<<ObjRow([day |-> Monday, time |-> T900AM, task |-> Standup]),
               ObjRow([day |-> Funday, time |-> T900AM, task |-> Gym]),
               ObjRow([time |-> T1000AM, task |-> Review]),
               ObjRow([day |-> Monday, time |-> T2500, task |-> Review]),
               ObjRow([day |-> Monday, time |-> T1000AM, task |-> <<>>])>>)

\* a grid whose third row is null
NullRowGrid ==
    Grid(<<TDayHeader, T900AM>>,
         <<ArrRow(<<Monday, Standup>>), ArrRow(<<Tuesday, Gym>>), NullRow>>)

\* a row for Monday and a row for Tuesday, and the same rows the other way
\* round
TwoDayGrid ==
    Grid(<<TDayHeader, T900AM>>,
         <<ArrRow(<<Monday, Standup>>), ArrRow(<<Tuesday, Gym>>)>>)

PermutedGrid ==
    Grid(<<TDayHeader, T900AM>>,
         <<ArrRow(<<Tuesday, Gym>>), ArrRow(<<Monday, Standup>>)>>)

\* schedules with malformed parts
MalformedSchedules == {MixedGrid, MixedRecords, NullRowGrid}

Schedules ==
    {NoSchedule, ExampleGrid, AlignedGrid, DupGrid, WeekGrid,
     RecordSchedule, ArraySchedule, EmptyGrid}

User(phone, isVerified, whatsapp, schedule, weeklySchedule) ==
    [phone |-> phone, isVerified |-> isVerified, whatsapp |-> whatsapp,
     schedule |-> schedule, weeklySchedule |-> weeklySchedule]

\* notificationSettings.whatsapp: true, false or absent
WhatsappValues == {"true", "false", "undefined"}

UserConfigs ==
    {User(Phone1, v, w, sch, NoSchedule) :
        v \in BOOLEAN, w \in WhatsappValues, sch \in Schedules}
    \cup {User(<<>>, TRUE, "true", ExampleGrid, NoSchedule),
          User(Phone1, TRUE, "true", ExampleGrid, ArraySchedule),
          User(Phone1, TRUE, "true", NoSchedule, ArraySchedule)}

\* verified, enabled users with a malformed or a well-formed schedule
MalformedConfigs ==
    {User(Phone1, TRUE, w, sch, NoSchedule) :
        w \in {"true", "undefined"},
        sch \in MalformedSchedules
                   \cup {AlignedGrid, NoSchedule, TwoDayGrid, PermutedGrid}}

\* the order in which User.find({}) returns the users
UserOrder == <<"u1", "u2">>

UserIds == {UserOrder[i] : i \in 1..Len(UserOrder)}

\* the instants at which the first tick of a behaviour fires
StartInstants ==
    {At(0, 1, 8, 58), At(0, 1, 9, 58), At(0, 1, 10, 58), At(0, 0, 23, 58),
     At(0, 2, 8, 58)}

Task(id, userId, text, dueDate, completed, oneMinuteReminderSent) ==
    [id |-> id, userId |-> userId, text |-> text, dueDate |-> dueDate,
     completed |-> completed,
     oneMinuteReminderSent |-> oneMinuteReminderSent]

\* the contents of the Task collection
TaskSets ==
    {{},
     {Task("t1", "u1", Gym, At(0, 1, 9, 0), FALSE, FALSE)},
     {Task("t1", "u1", Gym, At(0, 1, 9, 0), FALSE, FALSE),
      Task("t2", "u2", Call, At(0, 1, 0, 0), TRUE, FALSE)}}

(***************************************************************************)
(* State                                                                   *)
(***************************************************************************)
VARIABLES
    users,      \* the User collection: user id -> document
    tasks,      \* the Task collection: a set of documents
    clock,      \* the instant at which the timer fires next
    fired,      \* number of ticks fired so far
    inflight,   \* the ticks that are running: [now, pc, calls]
    sent,       \* the calls of sendWhatsAppReminder made so far
    finished,   \* the ticks that have ended: [now, outcome]
    listed,     \* the responses of GET /api/tasks/list so far
    timeStrings,  \* the headers handed to the time slot build
    timeSlots,  \* the time slots built from them: [built, slots]
    requests    \* the POST /api/schedule requests served: [user, body]

vars ==
    <<users, tasks, clock, fired, inflight, sent, finished, listed,
      timeStrings, timeSlots, requests>>

\* const timeSlots = [] before the build has run
NotBuilt == [built |-> FALSE, slots |-> <<>>]

Init ==
    /\ users \in [UserIds -> UserConfigs]
    /\ tasks \in TaskSets
    /\ clock \in StartInstants
    /\ fired = 0
    /\ inflight = {}
    /\ sent = {}
    /\ finished = {}
    /\ listed = {}
    /\ timeStrings = <<>>
    /\ timeSlots = NotBuilt
    /\ requests = {}

(***************************************************************************)
(* The reminder job as a process: the timer fires, User.find resolves,     *)
(* each awaited sendWhatsAppReminder resolves                              *)
(***************************************************************************)
\* the calls of one tick, in order, over the users of the per-user loop
RECURSIVE TickCalls(_, _, _)
TickCalls(allUsers, order, now) ==
    IF order = <<>> THEN <<>>
    ELSE LET id    == Head(order)
             calls == IF IsEligible(allUsers[id])
                      THEN UserCalls(allUsers[id], now) ELSE <<>>
         IN [i \in 1..Len(calls) |->
                [user |-> id, col |-> calls[i].col,
                 taskText |-> calls[i].taskText]]
            \o TickCalls(allUsers, Tail(order), now)

\* the rejection leaves the callback
RejectionOutcome_Uncaught == "uncaught"

\* how a tick ends whose await User.find({}) rejects: the await stands in
\* the try block, so the outer catch logs the error
RejectionOutcome == "error"

\* a rejection that left the callback has ended the process and its timer
Crashed == \E f \in finished : f.outcome = "uncaught"

\* cron fires the callback: const now = new Date(), then await User.find({})
CronFire ==
    /\ fired < MaxTicks
    /\ ~Crashed
    /\ inflight' = inflight \cup {[now |-> clock, pc |-> "find", calls |-> <<>>]}
    /\ clock' = clock + 1
    /\ fired' = fired + 1
    /\ UNCHANGED <<users, tasks, sent, finished, listed,
                 timeStrings, timeSlots, requests>>

\* User.find({}) rejects: the outer catch logs and the tick ends
UserFindFails(tick) ==
    /\ tick \in inflight /\ tick.pc = "find"
    /\ inflight' = inflight \ {tick}
    /\ finished' = finished \cup
                      {[now |-> tick.now, outcome |-> RejectionOutcome]}
    /\ UNCHANGED <<users, tasks, clock, fired, sent, listed,
                 timeStrings, timeSlots, requests>>

\* the converted schedule of the loop is written back to the user
PersistedAfterTick_SavesConversion(allUsers) ==
    [id \in DOMAIN allUsers |->
        [allUsers[id] EXCEPT !.schedule = LoopSchedule(allUsers[id])]]

\* the User collection after the callback has run over the documents it
\* read: the schedule conversions and user.currentDayTasks change the
\* documents in memory only, nothing is saved
PersistedAfterTick(allUsers) == allUsers

\* User.find({}) resolves: the filters and the loop run up to the first
\* awaited sendWhatsAppReminder, or to the end when nothing is due; a throw
\* before the loop is caught by the outer catch and ends the tick
UserFind(tick) ==
    /\ tick \in inflight /\ tick.pc = "find"
    /\ LET calls == TickCalls(users, UserOrder, tick.now) IN
       IF TickThrows(users)
       THEN /\ inflight' = inflight \ {tick}
            /\ finished' = finished \cup
                              {[now |-> tick.now, outcome |-> "aborted"]}
       ELSE IF calls = <<>>
       THEN /\ inflight' = inflight \ {tick}
            /\ finished' = finished \cup
                              {[now |-> tick.now, outcome |-> "completed"]}
       ELSE /\ inflight' = (inflight \ {tick}) \cup
                              {[tick EXCEPT !.pc = "send", !.calls = calls]}
            /\ finished' = finished
    /\ users' = PersistedAfterTick(users)
    /\ UNCHANGED <<tasks, clock, fired, sent, listed,
                 timeStrings, timeSlots, requests>>

\* a call that fails ends the loops
RemainingCalls_NoneAfterFailure(calls, success) ==
    IF success THEN Tail(calls) ELSE <<>>

\* the calls still to be made when one call has returned success (true or
\* false): the result is only logged
RemainingCalls(calls, success) == Tail(calls)

\* the awaited sendWhatsAppReminder returns success; the loop goes on to the
\* next call or to the end of the tick
SendReminder(tick, success) ==
    /\ tick \in inflight /\ tick.pc = "send"
    /\ LET call == Head(tick.calls)
           rest == RemainingCalls(tick.calls, success)
       IN /\ sent' = sent \cup
                       {[tick |-> tick.now, user |-> call.user,
                         col |-> call.col, taskText |-> call.taskText,
                         success |-> success]}
          /\ IF rest = <<>>
             THEN /\ inflight' = inflight \ {tick}
                  /\ finished' = finished \cup
                                   {[now |-> tick.now, outcome |-> "completed"]}
             ELSE /\ inflight' = (inflight \ {tick}) \cup
                                   {[tick EXCEPT !.calls = rest]}
                  /\ finished' = finished
    /\ UNCHANGED <<users, tasks, clock, fired, listed,
                 timeStrings, timeSlots, requests>>

Next ==
    \/ CronFire
    \/ \E tick \in inflight : UserFindFails(tick)
    \/ \E tick \in inflight : UserFind(tick)
    \/ \E tick \in inflight, success \in BOOLEAN : SendReminder(tick, success)

Spec == Init /\ [][Next]_vars

\* the job over a User collection that holds malformed schedules
InitMalformed ==
    /\ users \in [UserIds -> MalformedConfigs]
    /\ tasks = {}
    /\ clock \in StartInstants
    /\ fired = 0
    /\ inflight = {}
    /\ sent = {}
    /\ finished = {}
    /\ listed = {}
    /\ timeStrings = <<>>
    /\ timeSlots = NotBuilt
    /\ requests = {}

SpecMalformed == InitMalformed /\ [][Next]_vars

\* the first tick of the runs in which every awaited call settles
LiveStart == At(0, 1, 8, 58)

\* the instants at which a tick can fire in these runs
Instants == {LiveStart + k : k \in 0..MaxTicks}

\* verified, enabled users of these runs
LiveConfigs ==
    {User(Phone1, TRUE, "true", sch, NoSchedule) :
        sch \in {AlignedGrid, DupGrid, NoSchedule, RecordSchedule}}

InitLive ==
    /\ users \in [UserIds -> LiveConfigs]
    /\ tasks = {}
    /\ clock = LiveStart
    /\ fired = 0
    /\ inflight = {}
    /\ sent = {}
    /\ finished = {}
    /\ listed = {}
    /\ timeStrings = <<>>
    /\ timeSlots = NotBuilt
    /\ requests = {}

\* the query of a running tick settles: the connection is opened with
\* serverSelectionTimeoutMS and socketTimeoutMS
FindSettles ==
    \A t \in Instants :
       WF_vars(\E tick \in inflight :
                  tick.now = t /\ (UserFindFails(tick) \/ UserFind(tick)))

\* axios.post is called without a timeout: a call may never return
DispatchReturns_NoTimeout == TRUE

\* the awaited sendWhatsAppReminder of a running tick returns: axios.post is
\* called with timeout: 10000 and its error is caught
DispatchReturns ==
    \A t \in Instants :
       WF_vars(\E tick \in inflight, success \in BOOLEAN :
                  tick.now = t /\ SendReminder(tick, success))

\* the job with every awaited call settling
SpecLive == InitLive /\ [][Next]_vars /\ FindSettles /\ DispatchReturns

TypeOK ==
    /\ fired \in 0..MaxTicks
    /\ \A tick \in inflight : tick.pc \in {"find", "send"}
    /\ \A f \in finished : f.outcome \in {"completed", "error", "aborted", "uncaught"}

(***************************************************************************)
(* GET /api/tasks/list: the schedule and the Task collection merged        *)
(***************************************************************************)
\* the order in which Task.find returns the documents
TaskOrder == <<"t1", "t2">>

ScheduledAt == <<"S", "c", "h", "e", "d", "u", "l", "e", "d", " ", "a", "t", " ">>

Item(day, time, task, source) ==
    [day |-> day, time |-> time, task |-> task, source |-> source]

\* isNewFormat of the handler: every row is an object with 'day' and 'time'
ListIsNewFormat(rows) ==
    \A i \in 1..Len(rows) : HasKey(rows[i], "day") /\ HasKey(rows[i], "time")

\* the items of rows that are objects, in order
RECURSIVE NewFormatItems(_)
NewFormatItems(rows) ==
    IF rows = <<>> THEN <<>>
    ELSE LET row == Head(rows) IN
         (IF Truthy(row, "day") /\ Truthy(row, "time")
          THEN <<Item(row.obj.day, row.obj.time,
                      IF Truthy(row, "task") THEN row.obj.task
                      ELSE ScheduledAt \o row.obj.time,
                      "user_schedule")>>
          ELSE <<>>)
         \o NewFormatItems(Tail(rows))

\* the items of one array row: a cell with text under a header with text
RECURSIVE LegacyRowItems(_, _, _, _)
LegacyRowItems(headers, cells, rowIndex, colIndex) ==
    IF colIndex >= Len(cells) THEN <<>>
    ELSE (IF /\ cells[colIndex + 1] # <<>>
             /\ colIndex < Len(headers) /\ headers[colIndex + 1] # <<>>
          THEN <<Item(daysOfWeek[(rowIndex % 7) + 1], headers[colIndex + 1],
                      cells[colIndex + 1], "user_schedule_legacy")>>
          ELSE <<>>)
         \o LegacyRowItems(headers, cells, rowIndex, colIndex + 1)

RECURSIVE LegacyItems(_, _, _)
LegacyItems(schedule, rows, rowIndex) ==
    IF rows = <<>> THEN <<>>
    ELSE (IF Head(rows).arr /\ schedule.hasHeaders
          THEN LegacyRowItems(schedule.headers, Head(rows).cells, rowIndex, 0)
          ELSE <<>>)
         \o LegacyItems(schedule, Tail(rows), rowIndex + 1)

\* scheduleTasks: the items read from user.schedule
ScheduleItems(user) ==
    LET schedule == user.schedule IN
    IF schedule.kind # "object" \/ ~schedule.hasRows
          \/ Len(schedule.rows) = 0
    THEN <<>>
    ELSE IF ListIsNewFormat(schedule.rows)
         THEN NewFormatItems(schedule.rows)
         ELSE LegacyItems(schedule, schedule.rows, 0)

DigitSeq == <<"0", "1", "2", "3", "4", "5", "6", "7", "8", "9">>

\* a number below 100 as two digits
Pad2(n) == <<DigitSeq[(n \div 10) + 1], DigitSeq[(n % 10) + 1]>>

\* toLocaleTimeString('en-US', {hour: '2-digit', minute: '2-digit',
\* hour12: true})
ToLocaleTimeString(t) ==
    LET h   == GetHours(t)
        h12 == IF h % 12 = 0 THEN 12 ELSE h % 12
    IN Pad2(h12) \o <<":">> \o Pad2(GetMinutes(t)) \o <<" ">>
          \o (IF h < 12 THEN <<"A", "M">> ELSE <<"P", "M">>)

\* the items of the Task collection for a user: text and dueDate set
RECURSIVE TaskItems(_, _, _)
TaskItems(allTasks, userId, order) ==
    IF order = <<>> THEN <<>>
    ELSE LET found == {task \in allTasks :
                          task.id = Head(order) /\ task.userId = userId}
         IN (IF found # {}
             THEN LET task == CHOOSE task \in found : TRUE IN
                  IF task.text # <<>>
                  THEN <<Item(daysOfWeek[GetDay(task.dueDate) + 1],
                              ToLocaleTimeString(task.dueDate),
                              task.text, "task_collection")>>
                  ELSE <<>>
             ELSE <<>>)
            \o TaskItems(allTasks, userId, Tail(order))

\* dayOrder of the handler; found is FALSE for a name that is not a key
dayOrder(day) ==
    IF \E i \in 1..Len(daysOfWeek) : daysOfWeek[i] = day
    THEN [found |-> TRUE,
          index |-> (CHOOSE i \in 1..Len(daysOfWeek) : daysOfWeek[i] = day) - 1]
    ELSE [found |-> FALSE, index |-> 0]

\* collation weight of a character: white space, punctuation, digits,
\* letters without their case
CharRank(c) ==
    IF c = " " THEN 0
    ELSE IF c \in DigitChars THEN 10 + DigitVal(c)
    ELSE IF \E i \in 1..Len(LowerChars) : LowerChars[i] = LowerChar(c)
    THEN 100 + (CHOOSE i \in 1..Len(LowerChars) : LowerChars[i] = LowerChar(c))
    ELSE 5

\* a.localeCompare(b) < 0: by weight, then lower case before upper case
RECURSIVE LocaleBefore(_, _, _)
LocaleBefore(a, b, i) ==
    IF i > Len(a) \/ i > Len(b)
    THEN IF Len(a) # Len(b) THEN Len(a) < Len(b)
         ELSE \E k \in 1..Len(a) :
                 /\ a[k] # b[k] /\ a[k] = LowerChar(a[k])
                 /\ \A j \in 1..(k - 1) : a[j] = b[j]
    ELSE IF CharRank(a[i]) # CharRank(b[i])
         THEN CharRank(a[i]) < CharRank(b[i])
         ELSE LocaleBefore(a, b, i + 1)

\* the comparator of allTasks.sort is negative for (a, b)
ItemBefore(a, b) ==
    IF dayOrder(a.day).found /\ dayOrder(b.day).found
    THEN IF dayOrder(a.day).index # dayOrder(b.day).index
         THEN dayOrder(a.day).index < dayOrder(b.day).index
         ELSE LocaleBefore(a.time, b.time, 1)
    ELSE IF ~dayOrder(a.day).found /\ ~dayOrder(b.day).found
         THEN LocaleBefore(a.time, b.time, 1)
         ELSE FALSE   \* undefined - number is NaN

RECURSIVE InsertItem(_, _)
InsertItem(sorted, item) ==
    IF sorted = <<>> THEN <<item>>
    ELSE IF ItemBefore(item, Head(sorted)) THEN <<item>> \o sorted
    ELSE <<Head(sorted)>> \o InsertItem(Tail(sorted), item)

\* allTasks.sort(...)
RECURSIVE SortItems(_, _)
SortItems(items, sorted) ==
    IF items = <<>> THEN sorted
    ELSE SortItems(Tail(items), InsertItem(sorted, Head(items)))

\* const key = `${task.day}-${task.time}`.toLowerCase()
ItemKey(item) == ToLowerCase(item.day \o <<"-">> \o item.time)

\* "Remove duplicates based on day and time": the first item of a key stays
RECURSIVE uniqueTasks(_, _)
uniqueTasks(items, seen) ==
    IF items = <<>> THEN <<>>
    ELSE IF ItemKey(Head(items)) \in seen
         THEN uniqueTasks(Tail(items), seen)
         ELSE <<Head(items)>>
                 \o uniqueTasks(Tail(items), seen \cup {ItemKey(Head(items))})

\* the handler for a user that exists
TasksList(u) ==
    /\ LET allTasks == ScheduleItems(users[u])
                          \o TaskItems(tasks, u, TaskOrder)
       IN listed' = listed \cup
             {[user |-> u,
               tasks |-> uniqueTasks(SortItems(allTasks, <<>>), {})]}
    /\ UNCHANGED <<users, tasks, clock, fired, inflight, sent, finished,
                 timeStrings, timeSlots, requests>>

NextList == \E u \in UserIds : TasksList(u)

SpecList == Init /\ [][NextList]_vars

(***************************************************************************)
(* The time slot build on its own: the headers of a schedule are parsed    *)
(* into time slots and the slots are sorted                                *)
(***************************************************************************)
\* a number below 100 as the digits a user types
Digits(n) == IF n < 10 THEN <<DigitSeq[n + 1]>> ELSE Pad2(n)

\* the period suffixes, in both cases
Suffixes ==
    {<<"A", "M">>, <<"P", "M">>, <<"A">>, <<"P">>,
     <<"a", "m">>, <<"p", "m">>, <<"a">>, <<"p">>,
     <<"a", "M">>, <<"P", "m">>}

\* with or without a space before the suffix
Spaces == {<<>>, <<" ">>}

\* "H:MM" followed by a suffix, as in "9:30 AM" or "12:00p"
SuffixedTime(h12, m, sp, suf) == Digits(h12) \o <<":">> \o Pad2(m) \o sp \o suf

\* "H" followed by a suffix, as in "12 AM" or "9P"
SuffixedHour(h12, sp, suf) == Digits(h12) \o sp \o suf

\* "H:MM" and "HH:MM" without a suffix, and the hour alone
PlainTime(h, m) == Digits(h) \o <<":">> \o Pad2(m)

PaddedTime(h, m) == Pad2(h) \o <<":">> \o Pad2(m)

\* `${hours}:${minutes} ${period}` with hours % 12 || 12: "H:MM AM/PM"
FormatTime(h, m) ==
    Digits(IF h % 12 = 0 THEN 12 ELSE h % 12) \o <<":">> \o Pad2(m)
       \o <<" ">> \o (IF h >= 12 THEN <<"P", "M">> ELSE <<"A", "M">>)

\* the minutes used with the suffixed and the plain forms
SlotMinutes == {0, 5, 30, 59}

TNoon == <<"n", "o", "o", "n">>

TColonOnly == <<"a", "b", ":", "c", "d">>

T9xx == <<"9", ":", "x", "x">>

\* strings that are no time of the day
BadTimes ==
    {PlainTime(h, 0) : h \in 24..26}
       \cup {PlainTime(9, m) : m \in {60, 75, 99}}
       \cup {SuffixedTime(12, 60, <<" ">>, <<"A", "M">>),
             SuffixedTime(25, 0, <<" ">>, <<"P", "M">>),
             TNoon, TDayHeader, TColonOnly, T9xx, T2500}

\* header rows that mix strings that are no time with times
MixedHeaders ==
    {<<T2500, T900AM, TNoon>>,
     <<PlainTime(9, 75), PlainTime(13, 5), TDayHeader, Digits(7)>>,
     <<T1000AM, T9xx, T900AM>>}

\* the header rows handed to the build
HeaderRows ==
    {<<SuffixedTime(h12, m, sp, suf)>> :
        h12 \in 1..12, m \in SlotMinutes, sp \in Spaces, suf \in Suffixes}
    \cup {<<SuffixedHour(h12, sp, suf)>> :
        h12 \in 1..12, sp \in Spaces, suf \in Suffixes}
    \cup {<<FormatTime(h, m)>> : h \in 0..23, m \in 0..59}
    \cup {<<PlainTime(h, m)>> : h \in 0..23, m \in SlotMinutes}
    \cup {<<PaddedTime(h, m)>> : h \in 0..23, m \in SlotMinutes}
    \cup {<<Digits(h)>> : h \in 0..23}
    \cup {<<<<" ">> \o PlainTime(7, 15) \o <<" ", "P", "m", " ">> >>}
    \cup {<<bad>> : bad \in BadTimes}
    \cup MixedHeaders

\* the row of the day: one text per column
SlotRow == <<Standup, Review, Gym, CallText>>

InitSlots ==
    /\ users = [id \in UserIds |-> User(Phone1, TRUE, "true", NoSchedule, NoSchedule)]
    /\ tasks = {}
    /\ clock = 0
    /\ fired = 0
    /\ inflight = {}
    /\ sent = {}
    /\ finished = {}
    /\ listed = {}
    /\ timeStrings \in HeaderRows
    /\ timeSlots = NotBuilt
    /\ requests = {}

\* the for loop over schedule.headers and timeSlots.sort
BuildSlots ==
    /\ ~timeSlots.built
    /\ timeSlots' =
          [built |-> TRUE,
           slots |-> SortSlots(BuildTimeSlots(timeStrings, SlotRow, 0), <<>>)]
    /\ UNCHANGED <<users, tasks, clock, fired, inflight, sent, finished,
                   listed, timeStrings, requests>>

NextSlots == BuildSlots

SpecSlots == InitSlots /\ [][NextSlots]_vars

(***************************************************************************)
(* POST /api/schedule followed by the reminder job                         *)
(***************************************************************************)
\* const days of the handler: the day of a row of the posted grid
days == <<Monday, Tuesday, Wednesday, Thursday, Friday, Saturday, Sunday>>

\* schedule.headers.map(h => String(h || '').trim())
TransformHeaders(headers) == [i \in 1..Len(headers) |-> Trim(headers[i])]

\* row.map(...).filter(item => item.task) for the cells from colIndex on
RECURSIVE RowItems(_, _, _, _)
RowItems(day, headers, cells, colIndex) ==
    IF colIndex >= Len(cells) THEN <<>>
    ELSE (IF Trim(cells[colIndex + 1]) # <<>>
          THEN <<ObjRow([day  |-> day,
                         time |-> IF colIndex < Len(headers)
                                  THEN headers[colIndex + 1] ELSE <<>>,
                         task |-> Trim(cells[colIndex + 1])])>>
          ELSE <<>>)
         \o RowItems(day, headers, cells, colIndex + 1)

\* schedule.rows.flatMap(...) for the rows from rowIndex on
RECURSIVE TransformRows(_, _, _)
TransformRows(headers, rows, rowIndex) ==
    IF rows = <<>> THEN <<>>
    ELSE (IF rowIndex < Len(days)
          THEN RowItems(days[rowIndex + 1], headers, Head(rows), 0)
          ELSE <<>>)
         \o TransformRows(headers, Tail(rows), rowIndex + 1)

\* const transformedSchedule
transformedSchedule(body) ==
    Grid(TransformHeaders(body.headers),
         TransformRows(TransformHeaders(body.headers), body.rows, 0))

\* what toString gives for a cell that is an object
ObjectText ==
    <<"[", "o", "b", "j", "e", "c", "t", " ", "O", "b", "j", "e", "c", "t", "]">>

\* rows is declared [Array] in the schema: an item that is no array is
\* stored as written, or wrapped into an array of one cell by the cast
CastRows(rows) == [i \in 1..Len(rows) |-> ArrRow(<<ObjectText>>)]

StoredSchedule(schedule, wrapped) ==
    IF wrapped THEN Grid(schedule.headers, CastRows(schedule.rows))
    ELSE schedule

Body(headers, rows) == [headers |-> headers, rows |-> rows]

T900AMSpaced == <<" ">> \o T900AM \o <<" ">>

\* a grid of times without a day column; row 0 is Monday, row 1 Tuesday
TimesBody == Body(<<T900AM, T1000AM>>, <<<<Standup, Review>>, <<Gym, Blank>> >>)

\* a grid with a day column
DayColumnBody ==
    Body(<<TDayHeader, T900AMSpaced>>, <<<<Monday, Standup>>, <<Tuesday, Call>> >>)

\* one filled cell, in the row of Tuesday
OneCellBody == Body(<<T1000AM, T900AM>>, <<<<>>, << <<>>, Gym>> >>)

Bodies == {TimesBody, DayColumnBody, OneCellBody}

\* the handler for a request that names user u: only a verified user gets
\* past the checks; the schedule is replaced and the WhatsApp flag set
SaveSchedule(u, body, wrapped) ==
    /\ fired = 0
    /\ \A req \in requests : req.user # u
    /\ users[u].isVerified = TRUE
    /\ users' = [users EXCEPT
                   ![u].schedule =
                       StoredSchedule(transformedSchedule(body), wrapped),
                   ![u].whatsapp = "true"]
    /\ requests' = requests \cup {[user |-> u, body |-> body]}
    /\ UNCHANGED <<tasks, clock, fired, inflight, sent, finished, listed,
                   timeStrings, timeSlots>>

\* users that have saved nothing yet
InitSave ==
    /\ users \in [UserIds ->
                    {User(Phone1, v, w, NoSchedule, NoSchedule) :
                        v \in BOOLEAN, w \in WhatsappValues}]
    /\ tasks = {}
    /\ clock \in StartInstants
    /\ fired = 0
    /\ inflight = {}
    /\ sent = {}
    /\ finished = {}
    /\ listed = {}
    /\ timeStrings = <<>>
    /\ timeSlots = NotBuilt
    /\ requests = {}

NextSave ==
    \/ \E u \in UserIds, body \in Bodies, wrapped \in BOOLEAN :
          SaveSchedule(u, body, wrapped)
    \/ Next

SpecSave == InitSave /\ [][NextSave]_vars

(***************************************************************************)
(* The registration and schedule API: POST /api/send-whatsapp-otp,         *)
(* POST /api/verify-whatsapp-otp, POST /api/tasks, POST /api/schedule,     *)
(* POST /api/schedule/notify, GET /api/schedule/clear                      *)
(***************************************************************************)
\* minutes for which an OTP is accepted: Date.now() + 10 * 60 * 1000
OtpLifetime == 10

\* number of requests answered in one behaviour
MaxRequests == 3

\* minutes that pass in one behaviour
MaxElapsed == 2

\* number of tasks created in one behaviour
MaxTasks == 1

\* values of phoneOtp and of the otp of a request that are not a code
Undefined == "undefined"

Null == "null"

\* codes returned by generateOTP()
Otps == {"482913", "730156"}

\* values of otpExpiry: a Date, null, or absent
DateAt(t) == [d |-> "date", t |-> t]

NullDate == [d |-> "null", t |-> 0]

NoDate == [d |-> "undefined", t |-> 0]

\* new Date() > user.otpExpiry: null converts to 0, undefined to NaN
DateAfter(now, otpExpiry) ==
    CASE otpExpiry.d = "date" -> now > otpExpiry.t
      [] otpExpiry.d = "null" -> TRUE
      [] OTHER -> FALSE

\* a User document with the fields of the OTP flow
Account(isVerified, hasName, schedule, phoneOtp, otpExpiry) ==
    [phone |-> Phone1, isVerified |-> isVerified, whatsapp |-> "true",
     schedule |-> schedule, weeklySchedule |-> NoSchedule,
     hasName |-> hasName, phoneOtp |-> phoneOtp, otpExpiry |-> otpExpiry]

\* userSchema.pre('save'): an absent WhatsApp flag becomes true
PreSave(user) ==
    IF user.whatsapp = "undefined" THEN [user EXCEPT !.whatsapp = "true"]
    ELSE user

\* the first instant of these runs
ApiStart == At(0, 1, 8, 58)

\* the documents the collection can hold when a run starts: a user created
\* by POST /api/user-profile (no OTP was ever stored), a user to whom an
\* OTP was sent nine minutes ago, and a user who has verified
Accounts ==
    {Account(FALSE, hasName, EmptyGrid, Undefined, NoDate) :
        hasName \in BOOLEAN}
    \cup {Account(FALSE, TRUE, EmptyGrid, "482913", DateAt(ApiStart + 1)),
          Account(TRUE, TRUE, EmptyGrid, Null, NullDate),
          Account(TRUE, TRUE, AlignedGrid, Null, NullDate)}

\* the answer to a request: n counts the requests
Response(n, op, u, otp, status, message) ==
    [n |-> n, op |-> op, user |-> u, otp |-> otp, status |-> status,
     message |-> message]

\* number of requests answered so far
RECURSIVE MaxN(_)
MaxN(log) ==
    IF log = {} THEN 0
    ELSE LET q == CHOOSE p \in log : TRUE
             m == MaxN(log \ {q})
         IN IF q.n > m THEN q.n ELSE m

Answered == MaxN(requests)

\* the verifications that succeeded
Accepted(log) == {p \in log : p.op = "verify" /\ p.status = 200}

InitApi ==
    /\ users \in [UserIds -> Accounts]
    /\ tasks = {}
    /\ clock = ApiStart
    /\ fired = 0
    /\ inflight = {}
    /\ sent = {}
    /\ finished = {}
    /\ listed = {}
    /\ timeStrings = <<>>
    /\ timeSlots = NotBuilt
    /\ requests = {}

\* a minute passes
TimePasses ==
    /\ clock < ApiStart + MaxElapsed
    /\ clock' = clock + 1
    /\ UNCHANGED <<users, tasks, fired, inflight, sent, finished, listed,
                   timeStrings, timeSlots, requests>>

\* POST /api/send-whatsapp-otp for the phone of user u: without a name the
\* request is refused; otherwise a new code and its expiry are saved before
\* the message is handed to Gupshup, whose answer decides the status
SendOtp(u, name, otp, submitted) ==
    /\ Answered < MaxRequests
    /\ IF ~name
       THEN /\ users' = users
            /\ requests' = Accepted(requests) \cup
                  {Response(Answered + 1, "send", u, Undefined, 400,
                            "Please enter your name")}
       ELSE /\ users' = [users EXCEPT ![u] =
                            PreSave([users[u] EXCEPT
                                        !.hasName = TRUE,
                                        !.phoneOtp = otp,
                                        !.otpExpiry =
                                            DateAt(clock + OtpLifetime)])]
            /\ requests' = {p \in Accepted(requests) : p.user # u} \cup
                  {Response(Answered + 1, "send", u, otp,
                            IF submitted THEN 200 ELSE 500,
                            IF submitted THEN "WhatsApp OTP sent successfully!"
                            ELSE "Failed to send WhatsApp OTP")}
    /\ UNCHANGED <<tasks, clock, fired, inflight, sent, finished, listed,
                   timeStrings, timeSlots>>

\* the code stays stored after it was accepted
VerifiedUser_KeepsOtp(user) ==
    [user EXCEPT !.isVerified = TRUE, !.hasName = TRUE]

\* the document saved by an accepted verification
VerifiedUser(user) ==
    [user EXCEPT !.isVerified = TRUE, !.hasName = TRUE,
                 !.phoneOtp = Null, !.otpExpiry = NullDate]

\* POST /api/verify-whatsapp-otp for the phone of user u; otp is the otp of
\* the body (Undefined when the body has none), name tells whether the body
\* has a name that is not blank
VerifyOtp(u, otp, name) ==
    /\ Answered < MaxRequests
    /\ LET user == users[u] IN
       IF user.phoneOtp # otp
       THEN /\ users' = users
            /\ requests' = Accepted(requests) \cup
                  {Response(Answered + 1, "verify", u, otp, 400,
                            "Invalid OTP")}
       ELSE IF DateAfter(clock, user.otpExpiry)
       THEN /\ users' = users
            /\ requests' = Accepted(requests) \cup
                  {Response(Answered + 1, "verify", u, otp, 400,
                            "OTP expired")}
       ELSE IF ~(name \/ user.hasName)
       THEN /\ users' = users
            /\ requests' = Accepted(requests) \cup
                  {Response(Answered + 1, "verify", u, otp, 400,
                            "Name is required")}
       ELSE /\ users' = [users EXCEPT ![u] = PreSave(VerifiedUser(user))]
            /\ requests' = Accepted(requests) \cup
                  {Response(Answered + 1, "verify", u, otp, 200,
                            "WhatsApp verified successfully")}
    /\ UNCHANGED <<tasks, clock, fired, inflight, sent, finished, listed,
                   timeStrings, timeSlots>>

\* POST /api/tasks with a text and a reminderTime
CreateTask(u, text, dueDate) ==
    /\ Answered < MaxRequests
    /\ IF ~users[u].isVerified
       THEN /\ tasks' = tasks
            /\ requests' = Accepted(requests) \cup
                  {Response(Answered + 1, "tasks", u, Undefined, 403,
                            "Please verify your phone number before creating tasks")}
       ELSE /\ Cardinality(tasks) < MaxTasks
            /\ tasks' = tasks \cup
                  {Task(TaskOrder[Cardinality(tasks) + 1], u, Trim(text),
                        dueDate, FALSE, FALSE)}
            /\ requests' = Accepted(requests) \cup
                  {Response(Answered + 1, "tasks", u, Undefined, 200,
                            "saved")}
    /\ UNCHANGED <<users, clock, fired, inflight, sent, finished, listed,
                   timeStrings, timeSlots>>

\* POST /api/schedule: a user who is not verified is answered 403, for a
\* verified user the transformed schedule replaces the stored one
PostSchedule(u, body, wrapped) ==
    /\ Answered < MaxRequests
    /\ IF ~users[u].isVerified
       THEN /\ users' = users
            /\ requests' = Accepted(requests) \cup
                  {Response(Answered + 1, "schedule", u, Undefined, 403,
                            "Please verify your phone number before saving a schedule.")}
       ELSE /\ users' = [users EXCEPT
                           ![u].schedule =
                               StoredSchedule(transformedSchedule(body),
                                              wrapped),
                           ![u].whatsapp = "true"]
            /\ requests' = Accepted(requests) \cup
                  {Response(Answered + 1, "schedule", u, Undefined, 200,
                            "Schedule saved successfully")}
    /\ UNCHANGED <<tasks, clock, fired, inflight, sent, finished, listed,
                   timeStrings, timeSlots>>

\* a schedule of the body of POST /api/schedule/notify: the times of one day
DayTimes(day, time) == [kind |-> "days", day |-> day, times |-> <<time>>]

T0859 == <<"0", "8", ":", "5", "9">>

\* Number(text) for a text without sign, point or exponent
ToNumber(text) ==
    LET t == Trim(text) IN
    IF t = <<>> THEN Num(0)
    ELSE IF \A i \in 1..Len(t) : t[i] \in DigitChars
    THEN DigitPrefix(t, 0, FALSE)
    ELSE NaN

\* the text before the first ":" and the text between the first and the
\* second
RECURSIVE UpToColon(_)
UpToColon(text) ==
    IF text = <<>> \/ Head(text) = ":" THEN <<>>
    ELSE <<Head(text)>> \o UpToColon(Tail(text))

\* scheduledTime.split(":").map(Number): [hour, minute], minute being
\* undefined when there is no ":"
HourMinute(scheduledTime) ==
    LET first == UpToColon(scheduledTime) IN
    IF Len(first) = Len(scheduledTime)
    THEN [hour |-> ToNumber(first), minute |-> NaN]
    ELSE [hour   |-> ToNumber(first),
          minute |-> ToNumber(UpToColon(
                        SubSeq(scheduledTime, Len(first) + 2,
                               Len(scheduledTime))))]

\* diffMs > 0 && diffMs <= 60 * 1000 for a time of today: the scheduled
\* minute is the one after now
WithinOneMinute(scheduledTime, now) ==
    LET hm == HourMinute(scheduledTime) IN
    /\ ~hm.hour.nan /\ ~hm.minute.nan
    /\ hm.hour.v * MinutesPerHour + hm.minute.v = (now % MinutesPerDay) + 1

\* Task.find({userId, completed: false, dueDate within today})
IncompleteTasks(u, now) ==
    {task \in tasks :
        /\ task.userId = u
        /\ ~task.completed
        /\ task.dueDate \div MinutesPerDay = now \div MinutesPerDay}

\* whether sendWhatsAppReminder is called by the handler
NotifyCalls(u, schedule, now) ==
    /\ schedule.kind = "days"
    /\ schedule.day = targetDay_OfNow(now)
    /\ \E i \in 1..Len(schedule.times) :
          WithinOneMinute(schedule.times[i], now)
    /\ IncompleteTasks(u, now) # {}

\* user.schedule = schedule under the schema {headers, rows}: the keys the
\* schema does not have are dropped and the defaults fill in
NotifyStored(schedule) ==
    IF schedule.kind = "days" THEN EmptyGrid ELSE schedule

NotifySchedules == {DayTimes(Monday, T0859), DayTimes(Tuesday, T0859)}

\* POST /api/schedule/notify: a user who is not verified is answered 403;
\* for a verified user the schedule is saved and, when a time of today lies
\* within the next minute and the user has open tasks of today, a reminder
\* is sent, its success deciding the message
NotifySchedule(u, schedule, success) ==
    /\ Answered < MaxRequests
    /\ IF ~users[u].isVerified
       THEN /\ users' = users
            /\ requests' = Accepted(requests) \cup
                  {Response(Answered + 1, "notify", u, Undefined, 403,
                            "Please verify your phone number before updating schedule")}
       ELSE /\ users' = [users EXCEPT ![u] =
                            PreSave([users[u] EXCEPT
                                        !.schedule = NotifyStored(schedule)])]
            /\ requests' = Accepted(requests) \cup
                  {Response(Answered + 1, "notify", u, Undefined, 200,
                            IF NotifyCalls(u, schedule, clock) /\ success
                            THEN "WhatsApp notification sent!"
                            ELSE "Notifications activated for your schedule!")}
    /\ UNCHANGED <<tasks, clock, fired, inflight, sent, finished, listed,
                   timeStrings, timeSlots>>

\* GET /api/schedule/clear: findOneAndUpdate sets the schedule of the user
\* with this phone to {headers: [], rows: []}; isVerified is not read
ClearSchedule(u) ==
    /\ Answered < MaxRequests
    /\ users' = [users EXCEPT ![u].schedule = EmptyGrid]
    /\ requests' = Accepted(requests) \cup
          {Response(Answered + 1, "clear", u, Undefined, 200,
                    "Schedule cleared successfully")}
    /\ UNCHANGED <<tasks, clock, fired, inflight, sent, finished, listed,
                   timeStrings, timeSlots>>

NextApi ==
    \/ TimePasses
    \/ \E u \in UserIds, name \in BOOLEAN, otp \in Otps,
          submitted \in BOOLEAN : SendOtp(u, name, otp, submitted)
    \/ \E u \in UserIds, otp \in Otps \cup {Undefined, Null},
          name \in BOOLEAN : VerifyOtp(u, otp, name)
    \/ \E u \in UserIds : CreateTask(u, Call, ApiStart + 1)
    \/ \E u \in UserIds, wrapped \in BOOLEAN :
          PostSchedule(u, OneCellBody, wrapped)
    \/ \E u \in UserIds, schedule \in NotifySchedules, success \in BOOLEAN :
          NotifySchedule(u, schedule, success)
    \/ \E u \in UserIds : ClearSchedule(u)

SpecApi == InitApi /\ [][NextApi]_vars

(***************************************************************************)
(* Properties of the reminder job                                          *)
(***************************************************************************)
Completed(t) == [now |-> t, outcome |-> "completed"] \in finished

\* the calls a tick made for a user
SentIn(t, u) == {r \in sent : r.tick = t /\ r.user = u}

TextsIn(t, u) == {r.taskText : r \in SentIn(t, u)}

\* the target (now + 1 minute) of the tick fired at t is day, hour:minute
TargetIs(t, day, hour, minute) ==
    (t + 1) % MinutesPerWeek = At(0, day, hour, minute)

\* a verified user with a phone whose WhatsApp flag is not false and who
\* has no weeklySchedule
FlagsEligible(u) ==
    /\ users[u].isVerified = TRUE
    /\ users[u].phone # <<>>
    /\ users[u].whatsapp # "false"
    /\ users[u].weeklySchedule = NoSchedule

Entry(day, hour, minute, col, text) ==
    [day |-> day, hour |-> hour, minute |-> minute, col |-> col,
     text |-> text]

\* the filled cells of the grids, written out by hand: the row index gives
\* the day (row 0 = Monday), headers[col] the time, the trimmed cell the text
GridEntries(schedule) ==
    CASE schedule = ExampleGrid ->
            {Entry(1, 9, 0, 0, Monday), Entry(1, 10, 0, 1, Standup)}
      [] schedule = AlignedGrid ->
            {Entry(1, 9, 0, 1, Standup), Entry(1, 10, 0, 2, Review)}
      [] schedule = DupGrid ->
            {Entry(1, 9, 0, 1, Standup), Entry(1, 9, 0, 2, Review),
             Entry(1, 10, 0, 3, Gym), Entry(2, 9, 0, 1, CallText)}
      [] schedule = WeekGrid ->
            {Entry(1, 0, 0, 1, Standup), Entry(1, 9, 0, 2, Gym),
             Entry(2, 9, 0, 2, CallText), Entry(0, 0, 0, 1, Review)}
      [] OTHER -> {}

EntryDueAt(e, t) == TargetIs(t, e.day, e.hour, e.minute)

C2_OneCallPerUserPerTick ==
    \A f \in finished : \A u \in UserIds :
       Cardinality(SentIn(f.now, u)) <= 1

\* C3: a reminder is dispatched only to users with isVerified == true whose
\* WhatsApp flag is not false.
C3_OnlyVerifiedEnabled ==
    \A r \in sent :
       users[r.user].isVerified = TRUE /\ users[r.user].whatsapp # "false"

\* a verified user with a due grid entry and whatsapp explicitly false got
\* nothing in a completed tick in which the other user was reminded
C3_Witness ==
    \E u, v \in UserIds : \E f \in finished :
       /\ f.outcome = "completed"
       /\ users[u].isVerified = TRUE /\ users[u].whatsapp = "false"
       /\ users[u].phone # <<>> /\ users[u].weeklySchedule = NoSchedule
       /\ \E e \in GridEntries(users[u].schedule) : EntryDueAt(e, f.now)
       /\ SentIn(f.now, u) = {}
       /\ SentIn(f.now, v) # {}

\* the calls of a tick for a user, without the user
CallsOf(t, u) == {<<r.col, r.taskText>> : r \in SentIn(t, u)}

\* C4: a verified user whose WhatsApp flag is absent is treated like a user
\* whose flag is true: two users that differ only in that get the same
\* reminders in every completed tick.
C4_AbsentFlagIsEnabled ==
    \A u, v \in UserIds : \A f \in finished :
       (/\ f.outcome = "completed"
        /\ users[u].whatsapp = "undefined"
        /\ users[u].isVerified = TRUE
        /\ users[v] = [users[u] EXCEPT !.whatsapp = "true"])
       => CallsOf(f.now, u) = CallsOf(f.now, v)

C4_Witness ==
    \E u, v \in UserIds : \E f \in finished :
       /\ f.outcome = "completed"
       /\ users[u].whatsapp = "undefined"
       /\ users[u].isVerified = TRUE
       /\ users[v] = [users[u] EXCEPT !.whatsapp = "true"]
       /\ CallsOf(f.now, u) # {}

StoresExampleTriples(u) ==
    /\ users[u].isVerified = TRUE
    /\ users[u].phone # <<>>
    /\ users[u].whatsapp # "false"
    /\ \/ /\ users[u].weeklySchedule = NoSchedule
          /\ users[u].schedule \in {AlignedGrid, RecordSchedule, ArraySchedule}
       \/ /\ users[u].weeklySchedule = ArraySchedule
          /\ users[u].schedule = NoSchedule

\* C7: format invariance: users who store the same (day, time, task) triples
\* in encoding (a), (b) or (c) are sent the same items in every tick.
C7_FormatInvariance ==
    \A f \in finished : \A u, v \in UserIds :
       (/\ f.outcome = "completed"
        /\ StoresExampleTriples(u) /\ StoresExampleTriples(v))
       => TextsIn(f.now, u) = TextsIn(f.now, v)

\* C8: in each tick, for every eligible user, the incomplete tasks whose
\* dueDate lies in [now, target] and whose oneMinuteReminderSent is false are
\* dispatched with text = task.text.
C8_DueTasksIncluded ==
    \A f \in finished : \A task \in tasks :
       (/\ f.outcome = "completed"
        /\ FlagsEligible(task.userId)
        /\ users[task.userId].schedule \in
              {ExampleGrid, AlignedGrid, DupGrid, WeekGrid}
        /\ ~task.completed /\ ~task.oneMinuteReminderSent
        /\ f.now <= task.dueDate /\ task.dueDate <= f.now + 1)
       => \E r \in SentIn(f.now, task.userId) : r.taskText = task.text

\* C11: deduplication is last-writer-wins per (day, hour, minute): when two
\* cells of one row stand under headers that parse to the same hour and
\* minute ("9:00 AM" and "09:00") with different texts, only the later one in
\* input order is due; for the grid with both headers the tick whose target
\* is Monday 9:00 sends "Review" alone, and no tick sends a user two items.
C11_LastWriterWins ==
    \A f \in finished : \A u \in UserIds :
       (f.outcome = "completed" /\ FlagsEligible(u)) =>
          /\ (users[u].schedule = DupGrid /\ TargetIs(f.now, 1, 9, 0)) =>
                CallsOf(f.now, u) = {<<2, Review>>}
          /\ \A r1, r2 \in SentIn(f.now, u) : r1.taskText = r2.taskText


\* C12: partial tolerance: in a schedule that mixes valid entries with an
\* entry that has no day, an invalid day name ("Funday"), an unparsable time
\* or empty text, exactly the malformed entries are excluded: of the mixed
\* grid and of the mixed records the only entry that is valid is (Monday,
\* 9:00 AM, "Standup"), so the tick whose target is Monday 9:00 sends
\* "Standup" and every other tick sends nothing.
C12_PartialTolerance ==
    \A f \in finished : \A u \in UserIds :
       (/\ f.outcome = "completed" /\ FlagsEligible(u)
        /\ users[u].schedule \in {MixedGrid, MixedRecords})
       => TextsIn(f.now, u) =
             IF TargetIs(f.now, 1, 9, 0) THEN {Standup} ELSE {}


\* schedules that are absent, empty, or of no recognized shape (a bare array
\* stored where {headers, rows} is expected)
UnusableSchedules == {NoSchedule, EmptyGrid, ArraySchedule}

C14_FailureDoesNotStopOthers ==
    \A f \in finished :
       (\E r \in sent : r.tick = f.now /\ ~r.success) =>
          /\ f.outcome = "completed"
          /\ \A v \in UserIds :
                FlagsEligible(v) =>
                   \A e \in GridEntries(users[v].schedule) :
                      EntryDueAt(e, f.now) =>
                         \E r \in SentIn(f.now, v) :
                            r.col = e.col /\ r.taskText = e.text

\* the call for the first user failed and the second user, who has a due
\* entry, was called in the same tick
C14_Witness ==
    \E f \in finished :
       /\ f.outcome = "completed"
       /\ \E r \in SentIn(f.now, UserOrder[1]) : ~r.success
       /\ FlagsEligible(UserOrder[2])
       /\ \E e \in GridEntries(users[UserOrder[2]].schedule) :
             EntryDueAt(e, f.now)
       /\ SentIn(f.now, UserOrder[2]) # {}


\* C15: an error raised on one user's data (a schedule one of whose rows is
\* null) keeps no other eligible user from being processed in the same tick:
\* in every tick whose User.find resolved, an eligible user of the aligned
\* example grid is sent "Standup" when the target is Monday 9:00 and "Review"
\* when it is Monday 10:00, whatever the other user stores.
C15_ErrorsStayWithTheirUser ==
    \A f \in finished : \A v \in UserIds :
       (/\ f.outcome # "error"
        /\ FlagsEligible(v)
        /\ users[v].schedule = AlignedGrid)
       => /\ TargetIs(f.now, 1, 9, 0) => TextsIn(f.now, v) = {Standup}
          /\ TargetIs(f.now, 1, 10, 0) => TextsIn(f.now, v) = {Review}


\* C21: in a {headers, rows} schedule a row belongs to the day named in its
\* first cell, wherever the row stands: two eligible users whose grids hold
\* the same rows in a different order are sent the same texts in every tick.
C21_RowOrderIsIrrelevant ==
    \A f \in finished : \A u, v \in UserIds :
       (/\ f.outcome = "completed"
        /\ FlagsEligible(u) /\ FlagsEligible(v)
        /\ users[u].schedule = TwoDayGrid
        /\ users[v].schedule = PermutedGrid)
       => TextsIn(f.now, u) = TextsIn(f.now, v)


\* C22: at most one tick is executing at any time: a tick that fires while
\* the previous one is still running (awaiting User.find or a dispatch) is
\* skipped, so that no two ticks are in flight together.
C22_OneTickAtATime == Cardinality(inflight) <= 1


\* C23: when the user-store query fails in a tick, that tick ends without
\* any dispatch and without ending the scheduler process (the rejection is
\* caught), and the tick after it runs on its own: once completed it has
\* dispatched every due grid entry of every eligible user.
C23_FailedQueryEndsOnlyItsTick ==
    /\ ~Crashed
    /\ \A f \in finished :
          f.outcome = "error" => \A r \in sent : r.tick # f.now
    /\ \A f1, f2 \in finished : \A u \in UserIds :
          (/\ f1.outcome = "error"
           /\ f2.now = f1.now + 1 /\ f2.outcome = "completed"
           /\ FlagsEligible(u))
          => \A e \in GridEntries(users[u].schedule) :
                EntryDueAt(e, f2.now) =>
                   \E r \in SentIn(f2.now, u) :
                      r.col = e.col /\ r.taskText = e.text

\* the query of one tick failed and the next tick reminded a user
C23_Witness ==
    \E f1, f2 \in finished : \E u \in UserIds :
       /\ f1.outcome = "error"
       /\ f2.now = f1.now + 1 /\ f2.outcome = "completed"
       /\ \E e \in GridEntries(users[u].schedule) : EntryDueAt(e, f2.now)
       /\ SentIn(f2.now, u) # {}
       /\ SentIn(f1.now, u) = {}


\* a step of a tick: the timer fires, User.find settles or a dispatch returns
TickStep ==
    <<fired, inflight, sent, finished>>' # <<fired, inflight, sent, finished>>

\* C24: a tick leaves the persisted state of every user unchanged: the
\* stored schedule, weeklySchedule and notification flag of each user (and
\* the Task collection) are the same after each step of a tick as before,
\* whatever the tick converts in memory.
C24_TickPersistsNothing ==
    [][TickStep => (users' = users /\ tasks' = tasks)]_vars

\* a tick has completed over a user whose bare-array weeklySchedule the loop
\* converts to {rows, headers: []} in memory
C24_Witness ==
    \E f \in finished : \E u \in UserIds :
       /\ f.outcome = "completed"
       /\ IsEligible(users[u])
       /\ users[u].weeklySchedule = ArraySchedule
       /\ users[u].schedule = ExampleGrid


\* C26: every tick terminates: given that the query settles and that each
\* dispatch call returns (success, failure or timeout), a tick that has fired
\* eventually ends; and a tick in which a dispatch failed ends as completed
\* (the failure is not fatal).
C26_EveryTickTerminates ==
    /\ \A t \in Instants :
          (\E tick \in inflight : tick.now = t)
             ~> (\E f \in finished : f.now = t)
    /\ [](\A f \in finished :
             (\E r \in sent : r.tick = f.now /\ ~r.success)
                => f.outcome = "completed")

\* a tick in which a dispatch failed has ended
C26_Witness ==
    \E f \in finished : \E r \in sent :
       r.tick = f.now /\ ~r.success /\ f.outcome = "completed"


\* a text that is empty or holds whitespace only
IsBlank(text) == \A i \in 1..Len(text) : text[i] = " "

\* C27: a schedule cell whose text is empty or only whitespace never
\* produces a reminder: every call that was made names a column under which
\* the row of the target day holds a cell with text.
C27_BlankCellIsNeverReminded ==
    \A r \in sent :
       LET schedule == LoopSchedule(users[r.user])
           rowIndex == dayToRowIndex(ToLowerCase(targetDay(r.tick))).index
           cells    == schedule.rows[rowIndex + 1].cells
       IN /\ r.col + 1 <= Len(cells)
          /\ ~IsBlank(cells[r.col + 1])

\* a tick whose target is Tuesday 09:00 has ended for a user with DupGrid:
\* the cell under "9:00 AM" was sent, the blank cell under "09:00" was not
C27_Witness ==
    \E f \in finished : \E u \in UserIds :
       /\ f.outcome = "completed"
       /\ targetDay(f.now) = Tuesday
       /\ targetHour(f.now) = 9 /\ targetMinute(f.now) = 0
       /\ IsEligible(users[u])
       /\ users[u].schedule = DupGrid
       /\ IsBlank(DupGrid.rows[2].cells[3])
       /\ \E r \in sent : r.tick = f.now /\ r.user = u /\ r.col = 1
       /\ ~\E r \in sent : r.tick = f.now /\ r.user = u /\ r.col = 2


(***************************************************************************)
(* Properties of GET /api/tasks/list                                       *)
(***************************************************************************)
T0900AM == <<"0", "9", ":", "0", "0", " ", "A", "M">>

\* the ways in which the inputs write 9:00 in the morning
NineAM == {T900AM, T0900, T0900AM}

\* the items of a response that claim Monday 9:00
MondayNine(items) ==
    {i \in 1..Len(items) : items[i].day = Monday /\ items[i].time \in NineAM}

\* the user stores the record (Monday, 9:00 AM, Standup) and has a Task that
\* is due on Monday at 9:00
GridAndTaskClaimMondayNine(u) ==
    /\ users[u].isVerified = TRUE
    /\ users[u].schedule = RecordSchedule
    /\ \E task \in tasks :
          task.userId = u /\ task.dueDate % MinutesPerWeek = At(0, 1, 9, 0)

\* C10: when a schedule entry and a Task of the same user claim the same
\* slot, the merged result keeps exactly one item for the slot, and it is
\* the schedule entry.
C10_GridEntryWinsSlot ==
    \A resp \in listed :
       GridAndTaskClaimMondayNine(resp.user) =>
          /\ Cardinality(MondayNine(resp.tasks)) = 1
          /\ \A i \in MondayNine(resp.tasks) :
                resp.tasks[i].source # "task_collection"

(***************************************************************************)
(* Properties of the time slot build                                       *)
(***************************************************************************)
\* the build gave one slot, at hour h and minute m
OneSlot(h, m) ==
    /\ Len(timeSlots.slots) = 1
    /\ timeSlots.slots[1].hours = h
    /\ timeSlots.slots[1].minutes = m

\* C16: a time string with a period suffix (AM, PM, A or P in any case, with
\* or without a space before it) is converted from 12-hour to 24-hour: 12 AM
\* gives hour 0, 12 PM gives hour 12, PM with an hour below 12 adds 12, AM
\* with an hour below 12 leaves the hour as it is; the minute is kept.
C16_PeriodSuffixTo24Hour ==
    timeSlots.built =>
       \A h12 \in 1..12, sp \in Spaces, suf \in Suffixes :
          LET h24 == IF suf[1] \in {"P", "p"}
                     THEN (IF h12 < 12 THEN h12 + 12 ELSE 12)
                     ELSE (IF h12 = 12 THEN 0 ELSE h12)
          IN /\ timeStrings = <<SuffixedHour(h12, sp, suf)>> => OneSlot(h24, 0)
             /\ \A m \in SlotMinutes :
                   timeStrings = <<SuffixedTime(h12, m, sp, suf)>>
                      => OneSlot(h24, m)

\* "12:30a" has been built into the slot 0:30
C16_Witness ==
    /\ timeSlots.built
    /\ timeStrings = << <<"1", "2", ":", "3", "0", "a">> >>
    /\ OneSlot(0, 30)

\* C17: round trip: for every hour in 0..23 and minute in 0..59, the string
\* "H:MM AM/PM" made of (hour, minute) is parsed back to (hour, minute).
C17_FormatParseRoundTrip ==
    timeSlots.built =>
       \A h \in 0..23, m \in 0..59 :
          timeStrings = <<FormatTime(h, m)>> => OneSlot(h, m)

\* "11:59 PM", the string of (23, 59), has been built into the slot 23:59
C17_Witness ==
    /\ timeSlots.built
    /\ timeStrings = << <<"1", "1", ":", "5", "9", " ", "P", "M">> >>
    /\ OneSlot(23, 59)

\* C18: a time string without a period suffix has its hour taken as 24-hour
\* ("13:05" is 13:05, "9:00" and "09:00" are 9:00, nothing is shifted by 12),
\* and a string without ":MM" has minute 0.
C18_NoSuffixIs24Hour ==
    timeSlots.built =>
       \A h \in 0..23 :
          /\ timeStrings = <<Digits(h)>> => OneSlot(h, 0)
          /\ \A m \in SlotMinutes :
                timeStrings \in {<<PlainTime(h, m)>>, <<PaddedTime(h, m)>>}
                   => OneSlot(h, m)

\* "9" has been built into the slot 9:00
C18_Witness ==
    /\ timeSlots.built
    /\ timeStrings = << <<"9">> >>
    /\ OneSlot(9, 0)

\* C19: a time string whose hour is above 23 or whose minute is above 59, or
\* that is not numeric, is a parse failure: no slot is built for it, so that
\* it can match no tick, while the other headers of the same row still give
\* their slots, with the cell of their own column.
C19_InvalidTimeIsDropped ==
    timeSlots.built =>
       /\ \A bad \in BadTimes : timeStrings = <<bad>> => timeSlots.slots = <<>>
       /\ timeStrings = <<T2500, T900AM, TNoon>> =>
             timeSlots.slots =
                <<[col |-> 1, hours |-> 9, minutes |-> 0, taskText |-> Review]>>
       /\ timeStrings = <<PlainTime(9, 75), PlainTime(13, 5), TDayHeader,
                          Digits(7)>> =>
             timeSlots.slots =
                <<[col |-> 3, hours |-> 7, minutes |-> 0,
                   taskText |-> CallText],
                  [col |-> 1, hours |-> 13, minutes |-> 5,
                   taskText |-> Review]>>
       /\ timeStrings = <<T1000AM, T9xx, T900AM>> =>
             timeSlots.slots =
                <<[col |-> 2, hours |-> 9, minutes |-> 0, taskText |-> Gym],
                  [col |-> 0, hours |-> 10, minutes |-> 0,
                   taskText |-> Standup]>>

\* of the headers "25:00", "9:00 AM", "noon" only the second gave a slot
C19_Witness ==
    /\ timeSlots.built
    /\ timeStrings = <<T2500, T900AM, TNoon>>
    /\ Len(timeSlots.slots) = 1
    /\ timeSlots.slots[1].col = 1

(***************************************************************************)
(* Properties of POST /api/schedule followed by the reminder job           *)
(***************************************************************************)
\* the filled cells of the posted grids under a header that is a time,
\* written out by hand: day of the row (1 = Monday), hour, minute, text
BodyEntries(body) ==
    CASE body = TimesBody ->
            {Entry(1, 9, 0, 0, Standup), Entry(1, 10, 0, 1, Review),
             Entry(2, 9, 0, 0, Gym)}
      [] body = DayColumnBody ->
            {Entry(1, 9, 0, 1, Standup), Entry(2, 9, 0, 1, CallText)}
      [] body = OneCellBody -> {Entry(2, 9, 0, 1, Gym)}
      [] OTHER -> {}

\* C20: end to end: after a verified user has saved a schedule through POST
\* /api/schedule (which also enables WhatsApp) with text in the cell at row r
\* (Monday .. Sunday by row index) and column c under a header that is a
\* time, the completed tick whose target is that day and time dispatches a
\* reminder with the text of that cell to the user.
C20_SavedCellIsReminded ==
    \A f \in finished : \A req \in requests :
       f.outcome = "completed" =>
          \A e \in BodyEntries(req.body) :
             EntryDueAt(e, f.now) =>
                \E r \in SentIn(f.now, req.user) : r.taskText = e.text

\* C25: an explicit WhatsApp opt-out is kept by operations that do not
\* target the notification settings: no step (saving a schedule through POST
\* /api/schedule included) turns a stored flag that is false into another
\* value.
C25_OptOutPreserved ==
    [][\A u \in UserIds :
          users[u].whatsapp = "false" => users'[u].whatsapp = "false"]_vars

(***************************************************************************)
(* Properties of the registration and schedule API                         *)
(***************************************************************************)
\* the request answered by the step, if the step answers one
IsNew(q) == q.n = Answered + 1

\* the instant lies no later than a stored expiry
NoLaterThan(now, otpExpiry) == otpExpiry.d = "date" /\ now <= otpExpiry.t

\* C28: isVerified changes from false to true only in a verify request
\* whose otp equals the stored phoneOtp and that arrives no later than the
\* stored otpExpiry; a verify request with another otp, or one that arrives
\* later, leaves isVerified, phoneOtp and otpExpiry as they were.
C28_VerifiedOnlyByValidOtp ==
    [][\A u \in UserIds :
          /\ (~users[u].isVerified /\ users'[u].isVerified) =>
                \E q \in requests' :
                   /\ IsNew(q) /\ q.op = "verify" /\ q.user = u
                   /\ q.otp = users[u].phoneOtp
                   /\ NoLaterThan(clock, users[u].otpExpiry)
          /\ \A q \in requests' :
                (/\ IsNew(q) /\ q.op = "verify" /\ q.user = u
                 /\ \/ q.otp # users[u].phoneOtp
                    \/ ~NoLaterThan(clock, users[u].otpExpiry))
                => /\ users'[u].isVerified = users[u].isVerified
                   /\ users'[u].phoneOtp = users[u].phoneOtp
                   /\ users'[u].otpExpiry = users[u].otpExpiry]_vars

\* C29: an OTP is single-use: after the verification that was answered
\* last has succeeded, phoneOtp and otpExpiry of its user are null; and a
\* verify request that carries the code of an earlier successful one of the
\* same user, no OTP having been sent to the user in between, is rejected.
C29_OtpIsSingleUse ==
    /\ \A q \in Accepted(requests) :
          q.n = Answered =>
             /\ users[q.user].phoneOtp = Null
             /\ users[q.user].otpExpiry = NullDate
    /\ \A p \in Accepted(requests) : \A q \in requests :
          (q.op = "verify" /\ q.user = p.user /\ q.otp = p.otp
             /\ q.n > p.n)
          => q.status # 200

\* a code was accepted and the next request with the same code was rejected
C29_Witness ==
    \E p \in Accepted(requests) : \E q \in requests :
       /\ p.otp \in Otps
       /\ q.op = "verify" /\ q.user = p.user /\ q.otp = p.otp
       /\ q.n = p.n + 1 /\ q.status = 400
       /\ users[p.user].isVerified

\* the operations that create a task or replace the stored schedule
WritingOps == {"tasks", "schedule", "notify", "clear"}

\* C30: no API operation creates a task for, or changes the stored schedule
\* of, a user who is not verified: POST /api/tasks, POST /api/schedule,
\* POST /api/schedule/notify and GET /api/schedule/clear each answer such a
\* user with a rejection and leave the tasks and the schedule as they were.
C30_UnverifiedIsRejected ==
    [][\A u \in UserIds :
          ~users[u].isVerified =>
             /\ users'[u].schedule = users[u].schedule
             /\ {task \in tasks' : task.userId = u}
                   = {task \in tasks : task.userId = u}
             /\ \A q \in requests' :
                   (IsNew(q) /\ q.user = u /\ q.op \in WritingOps)
                   => q.status = 403]_vars

====
